---- MODULE Spec2Model ----
(***************************************************************************)
(* Monthly stock reconciliation of the fuel-station dashboard.             *)
(*                                                                         *)
(* The model follows the StockManagement component (src/unnamed/part_000): *)
(* the monthly_stock table shared by every browser session, and, for each  *)
(* session, the component's React state and the continuations of its       *)
(* async handlers.  Every await on the persistence service is a separate   *)
(* step: the request is executed by the service (or fails) in one atomic   *)
(* step together with the handler's continuation up to its next await.     *)
(* The fuel_records table is modelled with the two pieces of code that     *)
(* touch it: calculateEstimatedStock of StockManagement, which reads it,   *)
(* and FuelRecordForm (src/src/components/dashboard/FuelRecordForm.tsx),   *)
(* which writes it.                                                        *)
(*                                                                         *)
(* Quantities are whole litres (integers); IEEE rounding of fractional     *)
(* litres is outside the model.  Nullable columns are <<>> (null) or <<v>>.*)
(***************************************************************************)
EXTENDS Integers, Sequences, FiniteSets, TLC

(***************************************************************************)
(* Bounds of the model                                                     *)
(***************************************************************************)
\* number of calendar months the month picker can reach
MaxMonths == 2
\* largest closing quantity a user types
MaxAmount == 1
\* user gestures (clicks, picks, typing) of one behaviour, all sessions together
MaxGestures == 3

\* browser sessions showing the same station
Clients == {"c1", "c2"}

\* the station every session is mounted with (prop stationId)
StationId == "S1"

\* months are numbered 12 * year + (month - 1)
\* the month the wall clock shows when a session mounts: February 2024
CurrentMonth == 12 * 2024 + 1
\* the months the month input is set to: the current one and those before it
Months == (CurrentMonth - MaxMonths + 1) .. CurrentMonth

Amounts == 0 .. MaxAmount

(***************************************************************************)
(* Nullable values and JavaScript numbers                                  *)
(***************************************************************************)
Null == <<>>
Some(v) == <<v>>
IsNull(x) == x = <<>>
Val(x) == x[1]

\* a JavaScript number: NaN, or an integer
NaN == [nan |-> TRUE, v |-> 0]
Num(n) == [nan |-> FALSE, v |-> n]

\* JSON.stringify of a number in a request body: NaN is sent as null
ToJson(x) == IF x.nan THEN Null ELSE Some(x.v)

(***************************************************************************)
(* Calendar arithmetic of Date, date-fns format and startOfMonth           *)
(***************************************************************************)
IsLeap(year) == (year % 4 = 0 /\ year % 100 # 0) \/ year % 400 = 0

DaysInMonth(mi) ==
    LET month0 == mi % 12
        year == mi \div 12
    IN  IF month0 = 1 THEN (IF IsLeap(year) THEN 29 ELSE 28)
        ELSE IF month0 \in {3, 5, 8, 10} THEN 30
        ELSE 31

Date(mi, day) == [m |-> mi, d |-> day]

PrevDay(date) ==
    IF date.d > 1 THEN Date(date.m, date.d - 1)
    ELSE Date(date.m - 1, DaysInMonth(date.m - 1))

\* a date text 'yyyy-MM-dd' is <<yyyy, MM, dd>>; 'yyyy-MM' is read as its day 1
ParseIso(text) == Date(12 * text[1] + (text[2] - 1), text[3])

\* new Date('yyyy-MM-dd') and new Date('yyyy-MM') read the text as midnight UTC;
\* every later getter and format() shows that instant in local time, which is
\* the evening of the day before when the zone is behind UTC
NewDate(text, behind) == IF behind THEN PrevDay(ParseIso(text)) ELSE ParseIso(text)

\* Date.prototype.setMonth: the day of month is kept and an overflow runs
\* into the following month
SetMonth(local, mi) ==
    IF local.d > DaysInMonth(mi)
    THEN Date(mi + 1, local.d - DaysInMonth(mi))
    ELSE Date(mi, local.d)

StartOfMonth(local) == Date(local.m, 1)

\* format(date, 'yyyy-MM-dd'): the local calendar day as text
Format(local) == <<local.m \div 12, (local.m % 12) + 1, local.d>>

\* the month input's value 'yyyy-MM' for a month of the window
MonthInputValue(mi) == <<mi \div 12, (mi % 12) + 1, 1>>

\* onChange of the month input: format(new Date(e.target.value), 'yyyy-MM-dd')
PickedMonth(value, behind) == Format(NewDate(value, behind))

\* useState initial value: format(startOfMonth(new Date()), 'yyyy-MM-dd')
InitialSelectedMonth == Format(StartOfMonth(Date(CurrentMonth, 1)))

\* lastMonthFormatted of initializeMonthlyStock
LastMonthFormatted(selected, behind) ==
    LET lastMonth == NewDate(selected, behind)
    IN  Format(StartOfMonth(SetMonth(lastMonth, lastMonth.m - 1)))

(***************************************************************************)
(* The text of the amount field and parseFloat                             *)
(***************************************************************************)
Digits == <<"0", "1", "2", "3", "4", "5", "6", "7", "8", "9">>

DigitVal(ch) == CHOOSE i \in 0 .. 9 : Digits[i + 1] = ch

RECURSIVE ToText(_)
ToText(n) ==
    IF n < 10 THEN <<Digits[n + 1]>>
    ELSE ToText(n \div 10) \o <<Digits[(n % 10) + 1]>>

RECURSIVE DigitsValue(_)
DigitsValue(t) ==
    IF Len(t) = 0 THEN 0
    ELSE 10 * DigitsValue(SubSeq(t, 1, Len(t) - 1)) + DigitVal(t[Len(t)])

\* parseFloat: the empty text has no number in it
ParseFloat(t) == IF Len(t) = 0 THEN NaN ELSE Num(DigitsValue(t))

\* what <input type="number"> hands to onChange: the empty text (also for any
\* entry that is not a number) or a decimal numeral
AmountTexts == {<<>>} \cup {ToText(n) : n \in Amounts}

\* a JavaScript subtraction
Minus(a, b) == IF a.nan \/ b.nan THEN NaN ELSE Num(a.v - b.v)

\* x || 0 for a nullable number x
OrZero(x) == IF IsNull(x) \/ Val(x) = 0 THEN 0 ELSE Val(x)

(***************************************************************************)
(* The monthly_stock table                                                 *)
(***************************************************************************)
productTypes == {"PMS", "AGO", "LPG"}

\* the cards the sessions of the model click on; the cards do not interact
OperatedCards == {"PMS"}

ProductRank(p) == IF p = "AGO" THEN 1 ELSE IF p = "LPG" THEN 2 ELSE 3

VARIABLES
    store,              \* monthly_stock: the sequence of its rows, row i has id i
    behindUTC,          \* the browsers' time zone is behind UTC
    selectedMonth,      \* per session: useState selectedMonth
    monthlyStocks,      \* per session: useState monthlyStocks
    isDialogOpen,       \* per session: useState isDialogOpen
    selectedStock,      \* per session: useState selectedStock
    actualClosingStock, \* per session: useState actualClosingStock
    loading,            \* per session: useState loading
    loads,              \* per session: loadMonthlyStocks calls awaiting their select
    inits,              \* per session: initializeMonthlyStock calls in progress
    updates,            \* per session: the updateActualClosingStock call in progress
    toast,              \* per session: the last notification shown
    gestures,           \* user gestures left to the sessions
    fuel_records,       \* fuel_records: the sequence of its rows
    estimates,          \* per session: calculateEstimatedStock calls awaiting their select
    form                \* the FuelRecordForm of the page: its props, state and requests

\* the sales ledger and the components that read and write it
fuelVars == <<fuel_records, estimates, form>>

vars == <<store, behindUTC, selectedMonth, monthlyStocks, isDialogOpen,
          selectedStock, actualClosingStock, loading, loads, inits, updates,
          toast, gestures, fuelVars>>

Rows(s) == {s[i] : i \in 1 .. Len(s)}

\* select('*').eq('station_id', ..).eq('month_year', ..).order('product_type')
RECURSIVE OrderRows(_)
OrderRows(rows) ==
    IF rows = {} THEN <<>>
    ELSE LET first == CHOOSE r \in rows : \A q \in rows :
                          \/ ProductRank(r.product_type) < ProductRank(q.product_type)
                          \/ /\ r.product_type = q.product_type
                             /\ r.id <= q.id
         IN  <<first>> \o OrderRows(rows \ {first})

SelectMonthlyStocks(s, station, month) ==
    OrderRows({r \in Rows(s) : r.station_id = station /\ r.month_year = month})

\* select('actual_closing_stock').eq(..).eq(..).eq(..).single(): the data is the
\* one matching row, and null (with an error) when there is none or several
SelectSingleClosing(s, station, product, month) ==
    LET hit == {r \in Rows(s) : /\ r.station_id = station
                                /\ r.product_type = product
                                /\ r.month_year = month}
    IN  IF Cardinality(hit) = 1
        THEN Some([actual_closing_stock |-> (CHOOSE r \in hit : TRUE).actual_closing_stock])
        ELSE Null

\* the row initializeMonthlyStock inserts; the columns it leaves out are null
NewRow(s, station, product, month, opening) ==
    [id |-> Len(s) + 1, station_id |-> station, product_type |-> product,
     month_year |-> month, opening_stock |-> opening,
     actual_closing_stock |-> Null, excess |-> Null]

\* a table without the constraint
NoUniqueViolation(s, row) == FALSE

\* the table's uniqueness constraint on (station_id, product_type, month_year)
UniqueViolation(s, row) ==
    \E r \in Rows(s) : /\ r.station_id = row.station_id
                       /\ r.product_type = row.product_type
                       /\ r.month_year = row.month_year

\* an update that also rewrites the opening stock
UpdatedRowWithOpening(r, closing, excess) ==
    [r EXCEPT !.opening_stock = IF closing.nan THEN 0 ELSE closing.v,
              !.actual_closing_stock = ToJson(closing), !.excess = ToJson(excess)]

\* an update that leaves excess out of its payload
UpdatedRowClosingOnly(r, closing, excess) ==
    [r EXCEPT !.actual_closing_stock = ToJson(closing)]

\* update({actual_closing_stock, excess}).eq('id', id)
UpdatedRow(r, closing, excess) ==
    [r EXCEPT !.actual_closing_stock = ToJson(closing), !.excess = ToJson(excess)]

UpdateById(s, id, closing, excess) ==
    [i \in 1 .. Len(s) |-> IF s[i].id = id THEN UpdatedRow(s[i], closing, excess) ELSE s[i]]

\* stock = monthlyStocks.find(s => s.product_type === productType)
FindStock(list, product) ==
    LET hits == {i \in 1 .. Len(list) : list[i].product_type = product}
    IN  IF hits = {} THEN Null
        ELSE Some(list[CHOOSE i \in hits : \A j \in hits : i <= j])

(***************************************************************************)
(* Initial states: the sessions have just mounted (the mount effect has    *)
(* called loadMonthlyStocks), and the table is as earlier sessions of the  *)
(* two preceding months and of this month left it.                         *)
(***************************************************************************)
MonthKey(mi) == Format(Date(mi, 1))

\* a row as initializeMonthlyStock and updateActualClosingStock leave it
SeedRow(id, product, mi, opening, closing) ==
    [id |-> id, station_id |-> StationId, product_type |-> product,
     month_year |-> MonthKey(mi), opening_stock |-> opening,
     actual_closing_stock |-> closing,
     excess |-> IF IsNull(closing) THEN Null ELSE Some(opening - Val(closing))]

SeedStores ==
    {<<>>}
    \cup {<<SeedRow(1, "PMS", CurrentMonth - 1, 0, Some(v))>> : v \in Amounts}
    \cup {<<SeedRow(1, "PMS", CurrentMonth - 2, 0, Some(v))>> : v \in Amounts \ {0}}
    \cup {<<SeedRow(1, "PMS", CurrentMonth, 0, Null)>>}
    \cup {<<SeedRow(1, "PMS", CurrentMonth - 1, 0, Some(1)),
            SeedRow(2, "PMS", CurrentMonth, 1, Null),
            SeedRow(3, "AGO", CurrentMonth, 0, Null)>>}

LoadRequest(station, month) == [station_id |-> station, month_year |-> month]

\* every session has just mounted: the mount effect has called loadMonthlyStocks
InitSessions ==
    /\ selectedMonth = [c \in Clients |-> InitialSelectedMonth]
    /\ monthlyStocks = [c \in Clients |-> <<>>]
    /\ isDialogOpen = [c \in Clients |-> FALSE]
    /\ selectedStock = [c \in Clients |-> Null]
    /\ actualClosingStock = [c \in Clients |-> <<>>]
    /\ loading = [c \in Clients |-> FALSE]
    /\ loads = [c \in Clients |-> {LoadRequest(StationId, InitialSelectedMonth)}]
    /\ inits = [c \in Clients |-> {}]
    /\ updates = [c \in Clients |-> Null]
    /\ toast = [c \in Clients |-> "none"]

\* the day the form opens on: format(new Date(), 'yyyy-MM-dd')
Today == Format(Date(CurrentMonth, 1))

\* the form as it mounts: the effect has called loadPumps and loadPrices
InitialForm ==
    [stationId |-> StationId, pumps |-> <<>>, prices |-> <<>>, selectedPump |-> "",
     recordDate |-> Today, openingStock |-> <<>>, meterOpening |-> <<>>,
     meterClosing |-> <<>>, closingStock |-> <<>>, loading |-> FALSE,
     toast |-> "none", pumpLoads |-> {StationId}, priceLoads |-> TRUE,
     insert |-> Null]

\* no fuel record yet, no estimate asked for, the form as it mounts
InitLedger ==
    /\ fuel_records = <<>>
    /\ estimates = [c \in Clients |-> {}]
    /\ form = InitialForm

Init ==
    /\ store \in SeedStores
    /\ behindUTC \in BOOLEAN
    /\ InitSessions
    /\ gestures = MaxGestures
    /\ InitLedger

Gesture ==
    /\ gestures > 0
    /\ gestures' = gestures - 1

(***************************************************************************)
(* loadMonthlyStocks                                                       *)
(*                                                                         *)
(* The dialog is modal: while it is open the page behind it (the month     *)
(* input and the cards) takes no clicks.                                   *)
(***************************************************************************)
\* the select answers: setMonthlyStocks(data || [])
LoadMonthlyStocksDone(c) ==
    \E req \in loads[c] :
        /\ loads' = [loads EXCEPT ![c] = @ \ {req}]
        /\ monthlyStocks' = [monthlyStocks EXCEPT ![c] =
               SelectMonthlyStocks(store, req.station_id, req.month_year)]
        /\ UNCHANGED <<fuelVars, store, behindUTC, selectedMonth, isDialogOpen, selectedStock,
                       actualClosingStock, loading, inits, updates, toast, gestures>>

\* the select fails: the error is logged and the list stays as it was
LoadMonthlyStocksError(c) ==
    \E req \in loads[c] :
        /\ loads' = [loads EXCEPT ![c] = @ \ {req}]
        /\ UNCHANGED <<fuelVars, store, behindUTC, selectedMonth, monthlyStocks, isDialogOpen,
                       selectedStock, actualClosingStock, loading, inits, updates,
                       toast, gestures>>

\* the month input changes: setSelectedMonth, and the effect on
\* [stationId, selectedMonth] calls loadMonthlyStocks when the value changed
SelectMonth(c) ==
    \E mi \in Months :
        LET picked == PickedMonth(MonthInputValue(mi), behindUTC)
        IN  /\ Gesture
            /\ ~isDialogOpen[c]
            /\ picked # selectedMonth[c]
            /\ selectedMonth' = [selectedMonth EXCEPT ![c] = picked]
            /\ loads' = [loads EXCEPT ![c] = @ \cup {LoadRequest(StationId, picked)}]
            /\ UNCHANGED <<fuelVars, store, behindUTC, monthlyStocks, isDialogOpen, selectedStock,
                           actualClosingStock, loading, inits, updates, toast>>

(***************************************************************************)
(* initializeMonthlyStock                                                  *)
(***************************************************************************)
\* the Initialize Stock button of a product card, shown when the loaded list
\* has no row of the product; the handler runs up to its first await
ClickInitialize(c) ==
    \E productType \in productTypes \cap OperatedCards :
        /\ Gesture
        /\ ~isDialogOpen[c]
        /\ IsNull(FindStock(monthlyStocks[c], productType))
        /\ inits' = [inits EXCEPT ![c] = @ \cup
               {[call |-> gestures, pc |-> "lookup", product_type |-> productType,
                 station_id |-> StationId, month_year |-> selectedMonth[c],
                 lastMonthFormatted |-> LastMonthFormatted(selectedMonth[c], behindUTC),
                 openingStock |-> 0, lookupFailed |-> FALSE]}]
        /\ UNCHANGED <<fuelVars, store, behindUTC, selectedMonth, monthlyStocks, isDialogOpen,
                       selectedStock, actualClosingStock, loading, loads, updates, toast>>

\* openingStock = lastMonthData?.actual_closing_stock || 0
OpeningStock(lastMonthData) ==
    IF IsNull(lastMonthData) THEN 0 ELSE OrZero(Val(lastMonthData).actual_closing_stock)

\* the previous month's select answers (failed: the service did not answer
\* and data is null); only data is read, and the handler goes on to the insert
InitializeLookup(c) ==
    \E call \in inits[c], failed \in BOOLEAN :
        /\ call.pc = "lookup"
        /\ LET lastMonthData ==
                   IF failed THEN Null
                   ELSE SelectSingleClosing(store, call.station_id, call.product_type,
                                            call.lastMonthFormatted)
           IN  inits' = [inits EXCEPT ![c] = (@ \ {call}) \cup
                   {[call EXCEPT !.pc = "insert",
                                 !.openingStock = OpeningStock(lastMonthData),
                                 !.lookupFailed = failed]}]
        /\ UNCHANGED <<fuelVars, store, behindUTC, selectedMonth, monthlyStocks, isDialogOpen,
                       selectedStock, actualClosingStock, loading, loads, updates,
                       toast, gestures>>

\* the insert answers without error: success toast and loadMonthlyStocks of
\* the render the button was clicked in
InitializeInsertDone(c) ==
    \E call \in inits[c] :
        LET row == NewRow(store, call.station_id, call.product_type, call.month_year,
                          call.openingStock)
        IN  /\ call.pc = "insert"
            /\ ~UniqueViolation(store, row)
            /\ store' = Append(store, row)
            /\ inits' = [inits EXCEPT ![c] = @ \ {call}]
            /\ toast' = [toast EXCEPT ![c] = "initialize_success"]
            /\ loads' = [loads EXCEPT ![c] = @ \cup
                   {LoadRequest(call.station_id, call.month_year)}]
            /\ UNCHANGED <<fuelVars, behindUTC, selectedMonth, monthlyStocks, isDialogOpen,
                           selectedStock, actualClosingStock, loading, updates, gestures>>

\* a catch block that starts the operation again
InitializeInsertRetried(c) ==
    \E call \in inits[c] :
        /\ call.pc = "insert"
        /\ inits' = [inits EXCEPT ![c] = (@ \ {call}) \cup {[call EXCEPT !.pc = "lookup"]}]
        /\ toast' = [toast EXCEPT ![c] = "initialize_error"]
        /\ UNCHANGED <<fuelVars, store, behindUTC, selectedMonth, monthlyStocks,
                       isDialogOpen, selectedStock, actualClosingStock, loading, loads,
                       updates, gestures>>

\* the insert answers with an error (the service failed, or the row exists):
\* the catch block shows the error toast
InitializeInsertError(c) ==
    \E call \in inits[c] :
        /\ call.pc = "insert"
        /\ inits' = [inits EXCEPT ![c] = @ \ {call}]
        /\ toast' = [toast EXCEPT ![c] = "initialize_error"]
        /\ UNCHANGED <<fuelVars, store, behindUTC, selectedMonth, monthlyStocks, isDialogOpen,
                       selectedStock, actualClosingStock, loading, loads, updates,
                       gestures>>

(***************************************************************************)
(* updateActualClosingStock and its dialog                                 *)
(***************************************************************************)
\* the Set Actual Closing button of a card whose loaded row has no closing
ClickSetActualClosing(c) ==
    \E productType \in productTypes \cap OperatedCards :
        LET stock == FindStock(monthlyStocks[c], productType)
        IN  /\ Gesture
            /\ ~isDialogOpen[c]
            /\ ~IsNull(stock)
            /\ IsNull(Val(stock).actual_closing_stock)
            /\ selectedStock' = [selectedStock EXCEPT ![c] = stock]
            /\ isDialogOpen' = [isDialogOpen EXCEPT ![c] = TRUE]
            /\ UNCHANGED <<fuelVars, store, behindUTC, selectedMonth, monthlyStocks,
                           actualClosingStock, loading, loads, inits, updates, toast>>

\* onChange of the amount input of the dialog
TypeAmount(c) ==
    \E text \in AmountTexts :
        /\ Gesture
        /\ isDialogOpen[c]
        /\ text # actualClosingStock[c]
        /\ actualClosingStock' = [actualClosingStock EXCEPT ![c] = text]
        /\ UNCHANGED <<fuelVars, store, behindUTC, selectedMonth, monthlyStocks, isDialogOpen,
                       selectedStock, loading, loads, inits, updates, toast>>

\* Cancel, or the dialog is dismissed: only isDialogOpen changes
CloseDialog(c) ==
    /\ Gesture
    /\ isDialogOpen[c]
    /\ isDialogOpen' = [isDialogOpen EXCEPT ![c] = FALSE]
    /\ UNCHANGED <<fuelVars, store, behindUTC, selectedMonth, monthlyStocks, selectedStock,
                   actualClosingStock, loading, loads, inits, updates, toast>>

\* the subtraction the other way round
ExcessReversed(stock, actualClosing) == Minus(actualClosing, Num(stock.opening_stock))

\* a shortage recorded as zero
ExcessFloored(stock, actualClosing) ==
    LET e == Minus(Num(stock.opening_stock), actualClosing)
    IN  IF ~e.nan /\ e.v < 0 THEN Num(0) ELSE e

\* excess = selectedStock.opening_stock - actualClosing
Excess(stock, actualClosing) == Minus(Num(stock.opening_stock), actualClosing)

\* a button that is disabled while loading only
UpdateDisabledWhileLoading(c) == loading[c]

\* disabled={loading || !actualClosingStock} of the Update Stock button
UpdateDisabled(c) == loading[c] \/ Len(actualClosingStock[c]) = 0

\* the Update Stock button: the handler runs up to its await
ClickUpdate(c) ==
    /\ Gesture
    /\ isDialogOpen[c]
    /\ ~UpdateDisabled(c)
    /\ ~IsNull(selectedStock[c])
    /\ LET actualClosing == ParseFloat(actualClosingStock[c])
           excess == Excess(Val(selectedStock[c]), actualClosing)
       IN  updates' = [updates EXCEPT ![c] =
               Some([id |-> Val(selectedStock[c]).id, actualClosing |-> actualClosing,
                     excess |-> excess, month_year |-> selectedMonth[c]])]
    /\ loading' = [loading EXCEPT ![c] = TRUE]
    /\ UNCHANGED <<fuelVars, store, behindUTC, selectedMonth, monthlyStocks, isDialogOpen,
                   selectedStock, actualClosingStock, loads, inits, toast>>

\* the update answers without error
UpdateDone(c) ==
    /\ ~IsNull(updates[c])
    /\ LET call == Val(updates[c])
       IN  /\ store' = UpdateById(store, call.id, call.actualClosing, call.excess)
           /\ loads' = [loads EXCEPT ![c] = @ \cup {LoadRequest(StationId, call.month_year)}]
    /\ updates' = [updates EXCEPT ![c] = Null]
    /\ toast' = [toast EXCEPT ![c] = "update_success"]
    /\ isDialogOpen' = [isDialogOpen EXCEPT ![c] = FALSE]
    /\ selectedStock' = [selectedStock EXCEPT ![c] = Null]
    /\ actualClosingStock' = [actualClosingStock EXCEPT ![c] = <<>>]
    /\ loading' = [loading EXCEPT ![c] = FALSE]
    /\ UNCHANGED <<fuelVars, behindUTC, selectedMonth, monthlyStocks, inits, gestures>>

\* the update answers with an error
UpdateError(c) ==
    /\ ~IsNull(updates[c])
    /\ updates' = [updates EXCEPT ![c] = Null]
    /\ toast' = [toast EXCEPT ![c] = "update_error"]
    /\ loading' = [loading EXCEPT ![c] = FALSE]
    /\ UNCHANGED <<fuelVars, store, behindUTC, selectedMonth, monthlyStocks, isDialogOpen,
                   selectedStock, actualClosingStock, loads, inits, gestures>>

Next ==
    \E c \in Clients :
        \/ LoadMonthlyStocksDone(c)
        \/ LoadMonthlyStocksError(c)
        \/ SelectMonth(c)
        \/ ClickInitialize(c)
        \/ InitializeLookup(c)
        \/ InitializeInsertDone(c)
        \/ InitializeInsertError(c)
        \/ ClickSetActualClosing(c)
        \/ TypeAmount(c)
        \/ CloseDialog(c)
        \/ ClickUpdate(c)
        \/ UpdateDone(c)
        \/ UpdateError(c)

Spec == Init /\ [][Next]_vars

(***************************************************************************)
(* Reconciliation at length: the same sessions and tables with twice the   *)
(* gestures, all spent on the dialog, so that a row                        *)
(* is reconciled from two dialogs.  Every behaviour of SpecFinalize is a   *)
(* behaviour of the component.                                             *)
(***************************************************************************)
InitFinalize ==
    /\ store \in SeedStores
    /\ behindUTC \in BOOLEAN
    /\ InitSessions
    /\ gestures = 2 * MaxGestures
    /\ InitLedger

NextFinalize ==
    \E c \in Clients :
        \/ LoadMonthlyStocksDone(c)
        \/ LoadMonthlyStocksError(c)
        \/ ClickSetActualClosing(c)
        \/ TypeAmount(c)
        \/ CloseDialog(c)
        \/ ClickUpdate(c)
        \/ UpdateDone(c)
        \/ UpdateError(c)

SpecFinalize == InitFinalize /\ [][NextFinalize]_vars

(***************************************************************************)
(* The fuel_records table and calculateEstimatedStock                      *)
(***************************************************************************)
\* largest sales volume of a seeded fuel record
MaxVolume == 1
\* largest number of fuel records the table starts with
MaxRecords == 2

\* the row FuelRecordForm.handleSubmit inserts; sales_volume is a nullable column
FuelRecord(station, pump, product, date, opening, closing, mOpening, mClosing, volume, price, total) ==
    [station_code |-> station, pump_id |-> pump, product_type |-> product,
     record_date |-> date, opening_stock |-> opening, closing_stock |-> closing,
     meter_opening |-> mOpening, meter_closing |-> mClosing,
     sales_volume |-> volume, price_per_litre |-> price, total_sales |-> total,
     input_mode |-> "manual"]

\* a record of pump P1 of the station, as a day's submit leaves it
SeedFuelRecord(product, date, volume) ==
    FuelRecord(StationId, "P1", product, date, 0, 0, 0,
               IF IsNull(volume) THEN 0 ELSE Val(volume), volume, 1,
               IF IsNull(volume) THEN 0 ELSE Val(volume))

\* the days around the ends of the current month
LedgerDays ==
    {Format(Date(CurrentMonth - 1, DaysInMonth(CurrentMonth - 1))),
     Format(Date(CurrentMonth, 1)),
     Format(Date(CurrentMonth, DaysInMonth(CurrentMonth))),
     Format(Date(CurrentMonth + 1, 1))}

LedgerPool ==
    {SeedFuelRecord("PMS", day, Some(v)) : day \in LedgerDays, v \in 1 .. MaxVolume}
    \cup {SeedFuelRecord("PMS", Format(Date(CurrentMonth, 1)), Null),
          SeedFuelRecord("AGO", Format(Date(CurrentMonth, 1)), Some(1))}

\* the tables of at most MaxRecords records, in the order of their days
RECURSIVE LedgersOf(_)
LedgersOf(n) ==
    IF n = 0 THEN {<<>>}
    ELSE LedgersOf(n - 1) \cup
         {Append(t, r) : t \in {u \in LedgersOf(n - 1) : Len(u) = n - 1},
                         r \in LedgerPool}

\* 'yyyy-MM-dd' texts and dates compare by year, month, day
DateLess(a, b) ==
    \/ a[1] < b[1]
    \/ a[1] = b[1] /\ a[2] < b[2]
    \/ a[1] = b[1] /\ a[2] = b[2] /\ a[3] < b[3]

\* the seeded tables: records of different days, in the order of their days
SeedLedgers ==
    {t \in LedgersOf(MaxRecords) :
        \A i \in 1 .. Len(t) - 1 : DateLess(t[i].record_date, t[i + 1].record_date)}

\* monthEnd of calculateEstimatedStock: the day setMonth leaves, not normalised
\* to the start of its month
MonthEnd(selected, behind) ==
    LET nextMonth == NewDate(selected, behind)
    IN  Format(SetMonth(nextMonth, nextMonth.m + 1))

\* select('sales_volume').eq('station_code', ..).eq('product_type', ..)
\*     .gte('record_date', monthStart).lt('record_date', monthEnd)
SelectSalesVolume(fr, station, product, monthStart, monthEnd) ==
    SelectSeq(fr, LAMBDA r : /\ r.station_code = station
                             /\ r.product_type = product
                             /\ ~DateLess(r.record_date, monthStart)
                             /\ DateLess(r.record_date, monthEnd))

\* salesData.reduce((sum, record) => sum + (record.sales_volume || 0), 0)
RECURSIVE TotalSalesVolume(_)
TotalSalesVolume(salesData) ==
    IF Len(salesData) = 0 THEN 0
    ELSE TotalSalesVolume(SubSeq(salesData, 1, Len(salesData) - 1))
         + OrZero(salesData[Len(salesData)].sales_volume)

\* openingStock = stock?.opening_stock || 0
StockOpening(stock) == IF IsNull(stock) THEN 0 ELSE Val(stock).opening_stock

\* what the call hands to its caller
Returned(total, estimated) ==
    [raised |-> FALSE, totalSalesVolume |-> total, estimatedStock |-> estimated]

\* a catch block that throws again
FallbackRaised == [raised |-> TRUE, totalSalesVolume |-> 0, estimatedStock |-> 0]

\* the catch block: return { totalSalesVolume: 0, estimatedStock: 0 }
Fallback == Returned(0, 0)

\* a caller invokes calculateEstimatedStock(productType): the function runs up
\* to its await, with the selectedMonth and monthlyStocks of the render it was
\* made in; a session's caller awaits one call before it makes the next
CalculateEstimatedStock(c) ==
    \E productType \in productTypes \cap OperatedCards :
        /\ Gesture
        /\ \A call \in estimates[c] : call.pc # "select"
        /\ estimates' = [estimates EXCEPT ![c] =
               {[pc |-> "select", product_type |-> productType,
                 station_code |-> StationId,
                 monthStart |-> selectedMonth[c],
                 monthEnd |-> MonthEnd(selectedMonth[c], behindUTC),
                 stock |-> FindStock(monthlyStocks[c], productType),
                 result |-> Null]}]
        /\ UNCHANGED <<store, behindUTC, selectedMonth, monthlyStocks, isDialogOpen,
                       selectedStock, actualClosingStock, loading, loads, inits,
                       updates, toast, fuel_records, form>>

\* a call that writes an estimate back as the closing stock and clears the list
EstimateWrittenBack(c) ==
    \E call \in estimates[c] :
        /\ call.pc = "select"
        /\ estimates' = [estimates EXCEPT ![c] = {[call EXCEPT !.pc = "returned",
                                                              !.result = Some(Fallback)]}]
        /\ monthlyStocks' = [monthlyStocks EXCEPT ![c] = <<>>]
        /\ store' = [i \in 1 .. Len(store) |->
                        [store[i] EXCEPT !.actual_closing_stock = Some(0),
                                         !.excess = Some(store[i].opening_stock)]]
        /\ UNCHANGED <<behindUTC, selectedMonth, isDialogOpen, selectedStock,
                       actualClosingStock, loading, loads, inits, updates, toast,
                       gestures, fuel_records, form>>

\* the sales select answers without error
EstimateSelectDone(c) ==
    \E call \in estimates[c] :
        /\ call.pc = "select"
        /\ LET salesData == SelectSalesVolume(fuel_records, call.station_code,
                                              call.product_type, call.monthStart,
                                              call.monthEnd)
               totalSalesVolume == TotalSalesVolume(salesData)
               openingStock == StockOpening(call.stock)
               estimatedStock == openingStock - totalSalesVolume
           IN  estimates' = [estimates EXCEPT ![c] =
                   {[call EXCEPT !.pc = "returned",
                                 !.result = Some(Returned(totalSalesVolume, estimatedStock))]}]
        /\ UNCHANGED <<store, behindUTC, selectedMonth, monthlyStocks, isDialogOpen,
                       selectedStock, actualClosingStock, loading, loads, inits,
                       updates, toast, gestures, fuel_records, form>>

\* the sales select answers with an error: the catch block returns the fallback
EstimateSelectError(c) ==
    \E call \in estimates[c] :
        /\ call.pc = "select"
        /\ estimates' = [estimates EXCEPT ![c] =
               {[call EXCEPT !.pc = "failed", !.result = Some(Fallback)]}]
        /\ UNCHANGED <<store, behindUTC, selectedMonth, monthlyStocks, isDialogOpen,
                       selectedStock, actualClosingStock, loading, loads, inits,
                       updates, toast, gestures, fuel_records, form>>

(***************************************************************************)
(* FuelRecordForm                                                          *)
(***************************************************************************)
\* user gestures on the fuel record form in one behaviour
MaxFormGestures == 7

\* the stations the page is shown for (prop stationId)
Stations == {"S1", "S2"}

\* the pumps table, in the order of pump_number within a station
PumpsTable ==
    <<[id |-> "P1", pump_number |-> 1, product_type |-> "PMS", tank_id |-> "T1",
       station_id |-> "S1"],
      [id |-> "P2", pump_number |-> 2, product_type |-> "LPG", tank_id |-> "T2",
       station_id |-> "S1"],
      [id |-> "P3", pump_number |-> 1, product_type |-> "PMS", tank_id |-> "T3",
       station_id |-> "S2"]>>

\* product_prices, latest effective_date first; LPG has no price yet
ProductPricesTable ==
    <<[product_type |-> "PMS", price_per_litre |-> 2],
      [product_type |-> "AGO", price_per_litre |-> 3],
      [product_type |-> "PMS", price_per_litre |-> 1]>>

\* select('*').eq('station_id', stationId).order('pump_number')
SelectPumps(station) == SelectSeq(PumpsTable, LAMBDA p : p.station_id = station)

\* loadPrices: the first row of each product, in the order of the answer
RECURSIVE LatestPrices(_)
LatestPrices(data) ==
    IF Len(data) = 0 THEN <<>>
    ELSE LET latestPrices == LatestPrices(SubSeq(data, 1, Len(data) - 1))
             price == data[Len(data)]
         IN  IF \E i \in 1 .. Len(latestPrices) :
                    latestPrices[i].product_type = price.product_type
             THEN latestPrices
             ELSE Append(latestPrices, price)

\* pumps.find(p => p.id === selectedPump)
FindPump(pumps, id) ==
    LET hits == {i \in 1 .. Len(pumps) : pumps[i].id = id}
    IN  IF hits = {} THEN Null
        ELSE Some(pumps[CHOOSE i \in hits : \A j \in hits : i <= j])

\* getProductPrice: prices.find(..)?.price_per_litre || 0
GetProductPrice(prices, productType) ==
    LET hits == {i \in 1 .. Len(prices) : prices[i].product_type = productType}
    IN  IF hits = {} THEN 0
        ELSE prices[CHOOSE i \in hits : \A j \in hits : i <= j].price_per_litre

\* parseFloat(text) || 0
ParseFloatOrZero(text) ==
    LET x == ParseFloat(text) IN IF x.nan THEN 0 ELSE x.v

\* a sales volume that is the plain difference of the meter readings
CalculateSalesVolumeSigned(meterOpening, meterClosing) ==
    ParseFloatOrZero(meterClosing) - ParseFloatOrZero(meterOpening)

\* calculateSalesVolume: Math.max(0, closing - opening)
CalculateSalesVolume(meterOpening, meterClosing) ==
    LET opening == ParseFloatOrZero(meterOpening)
        closing == ParseFloatOrZero(meterClosing)
    IN  IF closing - opening > 0 THEN closing - opening ELSE 0

\* the frame of the form's steps: the stock page and the estimates
FormFrame ==
    UNCHANGED <<store, behindUTC, selectedMonth, monthlyStocks, isDialogOpen,
                selectedStock, actualClosingStock, loading, loads, inits, updates,
                toast, estimates>>

\* the pumps select answers: setPumps(data || [])
LoadPumpsDone ==
    \E station \in form.pumpLoads :
        /\ form' = [form EXCEPT !.pumpLoads = @ \ {station},
                                !.pumps = SelectPumps(station)]
        /\ UNCHANGED <<gestures, fuel_records>>
        /\ FormFrame

\* the pumps select fails: the list stays as it was
LoadPumpsError ==
    \E station \in form.pumpLoads :
        /\ form' = [form EXCEPT !.pumpLoads = @ \ {station}]
        /\ UNCHANGED <<gestures, fuel_records>>
        /\ FormFrame

\* the prices select answers: setPrices(latestPrices)
LoadPricesDone ==
    /\ form.priceLoads
    /\ form' = [form EXCEPT !.priceLoads = FALSE,
                            !.prices = LatestPrices(ProductPricesTable)]
    /\ UNCHANGED <<gestures, fuel_records>>
    /\ FormFrame

\* the prices select fails
LoadPricesError ==
    /\ form.priceLoads
    /\ form' = [form EXCEPT !.priceLoads = FALSE]
    /\ UNCHANGED <<gestures, fuel_records>>
    /\ FormFrame

\* the page shows another station: the effect on [stationId] loads again
ChangeStation ==
    \E station \in Stations \ {form.stationId} :
        /\ Gesture
        /\ form' = [form EXCEPT !.stationId = station,
                                !.pumpLoads = @ \cup {station},
                                !.priceLoads = TRUE]
        /\ UNCHANGED fuel_records
        /\ FormFrame

\* onValueChange of the pump select: one of the items of the loaded list
SelectPump ==
    \E i \in 1 .. Len(form.pumps) :
        /\ Gesture
        /\ ~form.loading
        /\ form.pumps[i].id # form.selectedPump
        /\ form' = [form EXCEPT !.selectedPump = form.pumps[i].id]
        /\ UNCHANGED fuel_records
        /\ FormFrame

\* onChange of one of the four number inputs
TypeReading ==
    \E field \in {"openingStock", "closingStock", "meterOpening", "meterClosing"},
       text \in AmountTexts :
        /\ Gesture
        /\ ~form.loading
        /\ text # form[field]
        /\ form' = [form EXCEPT ![field] = text]
        /\ UNCHANGED fuel_records
        /\ FormFrame

\* onChange of the date input
SetRecordDate ==
    \E day \in LedgerDays :
        /\ Gesture
        /\ ~form.loading
        /\ day # form.recordDate
        /\ form' = [form EXCEPT !.recordDate = day]
        /\ UNCHANGED fuel_records
        /\ FormFrame

\* the four number inputs are required: the browser submits the form only
\* when each holds a value
RequiredFilled ==
    /\ Len(form.openingStock) > 0
    /\ Len(form.closingStock) > 0
    /\ Len(form.meterOpening) > 0
    /\ Len(form.meterClosing) > 0

\* the row handleSubmit sends
SubmittedRecord(pump) ==
    LET salesVolume == CalculateSalesVolume(form.meterOpening, form.meterClosing)
        pricePerLitre == GetProductPrice(form.prices, pump.product_type)
        totalSales == salesVolume * pricePerLitre
    IN  FuelRecord(form.stationId, form.selectedPump, pump.product_type,
                   form.recordDate, ParseFloatOrZero(form.openingStock),
                   ParseFloatOrZero(form.closingStock),
                   ParseFloatOrZero(form.meterOpening),
                   ParseFloatOrZero(form.meterClosing),
                   Some(salesVolume), pricePerLitre, totalSales)

\* a handler whose pump-not-found path skips the finally block
HandleSubmitStuck ==
    /\ Gesture
    /\ ~form.loading
    /\ RequiredFilled
    /\ IF form.selectedPump = ""
       THEN form' = [form EXCEPT !.toast = "select_pump"]
       ELSE LET pump == FindPump(form.pumps, form.selectedPump)
            IN  IF IsNull(pump)
                THEN form' = [form EXCEPT !.toast = "save_error", !.loading = TRUE]
                ELSE form' = [form EXCEPT !.loading = TRUE,
                                          !.insert = Some(SubmittedRecord(Val(pump)))]
    /\ UNCHANGED fuel_records
    /\ FormFrame

\* the form is submitted (the Save button is disabled while loading):
\* handleSubmit runs up to its await, or to its end when it sends nothing
HandleSubmit ==
    /\ Gesture
    /\ ~form.loading
    /\ RequiredFilled
    /\ IF form.selectedPump = ""
       THEN form' = [form EXCEPT !.toast = "select_pump"]
       ELSE LET pump == FindPump(form.pumps, form.selectedPump)
            IN  IF IsNull(pump)
                THEN form' = [form EXCEPT !.toast = "save_error", !.loading = FALSE]
                ELSE form' = [form EXCEPT !.loading = TRUE,
                                          !.insert = Some(SubmittedRecord(Val(pump)))]
    /\ UNCHANGED fuel_records
    /\ FormFrame

\* the insert answers without error: success toast and the fields are reset
SubmitInsertDone ==
    /\ ~IsNull(form.insert)
    /\ fuel_records' = Append(fuel_records, Val(form.insert))
    /\ form' = [form EXCEPT !.insert = Null, !.toast = "save_success",
                            !.selectedPump = "", !.openingStock = <<>>,
                            !.meterOpening = <<>>, !.meterClosing = <<>>,
                            !.closingStock = <<>>, !.loading = FALSE]
    /\ UNCHANGED gestures
    /\ FormFrame

\* the insert answers with an error: error toast, the fields stay
SubmitInsertError ==
    /\ ~IsNull(form.insert)
    /\ form' = [form EXCEPT !.insert = Null, !.toast = "save_error",
                            !.loading = FALSE]
    /\ UNCHANGED <<gestures, fuel_records>>
    /\ FormFrame

(***************************************************************************)
(* The estimate over a ledger that already holds records, and the form on  *)
(* its own.  Every behaviour of SpecEstimate and of SpecForm is a          *)
(* behaviour of the page.                                                  *)
(***************************************************************************)
\* the tables whose rows of the current month the sessions load
EstimateStores ==
    {s \in SeedStores : \A i \in 1 .. Len(s) :
        \E j \in 1 .. Len(s) : s[j].month_year = MonthKey(CurrentMonth)}

InitEstimate ==
    /\ store \in EstimateStores
    /\ behindUTC \in BOOLEAN
    /\ InitSessions
    /\ gestures = MaxGestures
    /\ fuel_records \in SeedLedgers
    /\ estimates = [c \in Clients |-> {}]
    /\ form = InitialForm

NextEstimate ==
    \E c \in Clients :
        \/ LoadMonthlyStocksDone(c)
        \/ LoadMonthlyStocksError(c)
        \/ SelectMonth(c)
        \/ CalculateEstimatedStock(c)
        \/ EstimateSelectDone(c)
        \/ EstimateSelectError(c)

SpecEstimate == InitEstimate /\ [][NextEstimate]_vars

InitForm ==
    /\ store = <<>>
    /\ behindUTC = FALSE
    /\ InitSessions
    /\ gestures = MaxFormGestures
    /\ InitLedger

NextForm ==
    \/ LoadPumpsDone
    \/ LoadPumpsError
    \/ LoadPricesDone
    \/ LoadPricesError
    \/ ChangeStation
    \/ SelectPump
    \/ SetRecordDate
    \/ TypeReading
    \/ HandleSubmit
    \/ SubmitInsertDone
    \/ SubmitInsertError

SpecForm == InitForm /\ [][NextForm]_vars

(***************************************************************************)
(* Properties                                                              *)
(***************************************************************************)
SameKey(r, q) ==
    /\ r.station_id = q.station_id
    /\ r.product_type = q.product_type
    /\ r.month_year = q.month_year

\* the first day of the calendar month before the month of a period key
PreviousPeriodKey(key) ==
    IF key[2] = 1 THEN <<key[1] - 1, 12, 1>> ELSE <<key[1], key[2] - 1, 1>>

IsPeriodKey(key) == key[3] = 1

\* the rows of the period before that of row r, same station and product
PreviousRows(s, r) ==
    {q \in Rows(s) : /\ q.station_id = r.station_id
                     /\ q.product_type = r.product_type
                     /\ q.month_year = PreviousPeriodKey(r.month_year)}

\* this step is an insert of initializeMonthlyStock
Inserted == Len(store') = Len(store) + 1

CreatedRow == store'[Len(store')]

\* this step ends the update call of session c
UpdateEnds(c) == ~IsNull(updates[c]) /\ IsNull(updates'[c])

\* C1: the table never holds two rows with the same station_id, product_type
\* and month_year, whatever lists the initializeMonthlyStock calls were
\* issued from
C1_Uniqueness ==
    \A i, j \in 1 .. Len(store) : SameKey(store[i], store[j]) => i = j

\* an initializeMonthlyStock call is about to insert a row whose key another
\* call has inserted since the button was shown
C1_Witness ==
    \E c \in Clients : \E call \in inits[c] :
        /\ call.pc = "insert"
        /\ UniqueViolation(store, NewRow(store, call.station_id, call.product_type,
                                         call.month_year, call.openingStock))
        /\ \E d \in Clients \ {c} : toast[d] = "initialize_success"

\* C2: every row has actual_closing_stock and excess both null or both set,
\* and the row of an update that ended in success has both set
C2_Pairing ==
    /\ [](\A i \in 1 .. Len(store) :
            IsNull(store[i].actual_closing_stock) <=> IsNull(store[i].excess))
    /\ [][\A c \in Clients :
            (UpdateEnds(c) /\ toast'[c] = "update_success") =>
                LET row == store'[Val(updates[c]).id]
                IN  ~IsNull(row.actual_closing_stock) /\ ~IsNull(row.excess)]_vars

\* a session has reconciled a row
C2_Witness ==
    \E c \in Clients : \E i \in 1 .. Len(store) :
        /\ toast[c] = "update_success"
        /\ IsNull(updates[c])
        /\ ~IsNull(store[i].actual_closing_stock)
        /\ store[i].month_year = MonthKey(CurrentMonth)

\* C3: every row with a closing stock has excess = its stored opening_stock
\* minus its stored actual_closing_stock
C3_ExcessInvariant ==
    \A i \in 1 .. Len(store) :
        ~IsNull(store[i].actual_closing_stock) =>
            /\ ~IsNull(store[i].excess)
            /\ Val(store[i].excess) =
                   store[i].opening_stock - Val(store[i].actual_closing_stock)

\* a row carried in with opening stock 1 has been reconciled from the copy a
\* dialog held, to a closing stock other than 1
C3_Witness ==
    \E c \in Clients : \E i \in 1 .. Len(store) :
        /\ toast[c] = "update_success"
        /\ store[i].month_year = MonthKey(CurrentMonth)
        /\ store[i].opening_stock = 1
        /\ ~IsNull(store[i].actual_closing_stock)
        /\ Val(store[i].actual_closing_stock) # 1

\* C4: when initializeMonthlyStock creates the row of period P+1 while period P
\* has a reconciled row, the created opening_stock is P's actual_closing_stock
C4_CarryForward ==
    [][(Inserted /\ IsPeriodKey(CreatedRow.month_year)) =>
          \A q \in PreviousRows(store, CreatedRow) :
              ~IsNull(q.actual_closing_stock) =>
                  CreatedRow.opening_stock = Val(q.actual_closing_stock)]_vars

\* C5: when initializeMonthlyStock creates a row while the period before has
\* no row, or only a row without closing stock, the created row has opening
\* stock 0 and neither closing stock nor excess
C5_ColdStart ==
    [][(Inserted /\ IsPeriodKey(CreatedRow.month_year)) =>
          ((\A q \in PreviousRows(store, CreatedRow) : IsNull(q.actual_closing_stock)) =>
              /\ CreatedRow.opening_stock = 0
              /\ IsNull(CreatedRow.actual_closing_stock)
              /\ IsNull(CreatedRow.excess))]_vars

\* C6: no step removes a row or changes the opening_stock of a row
C6_OpeningImmutable ==
    [][\A i \in 1 .. Len(store) :
          /\ i <= Len(store')
          /\ store'[i].opening_stock = store[i].opening_stock]_vars

\* a row with a non-zero closing stock has been written by an update
C6_Witness ==
    \E c \in Clients : \E i \in 1 .. Len(store) :
        /\ toast[c] = "update_success"
        /\ store[i].opening_stock = 0
        /\ store[i].month_year = MonthKey(CurrentMonth)
        /\ ~IsNull(store[i].actual_closing_stock)
        /\ Val(store[i].actual_closing_stock) # 0

\* C7: no step removes a row, and once a row has a closing stock no step
\* changes its actual_closing_stock or its excess
C7_FinalizedOnce ==
    [][\A i \in 1 .. Len(store) :
          /\ i <= Len(store')
          /\ ~IsNull(store[i].actual_closing_stock) =>
                /\ store'[i].actual_closing_stock = store[i].actual_closing_stock
                /\ store'[i].excess = store[i].excess]_vars

\* C8: an update is issued only for an amount that parses to a number: no
\* update call in progress carries NaN
C8_ValidationBeforeWrite ==
    \A c \in Clients :
        ~IsNull(updates[c]) =>
            /\ ~Val(updates[c]).actualClosing.nan
            /\ ~Val(updates[c]).excess.nan

\* the dialog is open on a row with an amount that does not parse, the button
\* is disabled and nothing has been sent
C8_Witness ==
    \E c \in Clients :
        /\ isDialogOpen[c]
        /\ ~IsNull(selectedStock[c])
        /\ ParseFloat(actualClosingStock[c]).nan
        /\ ~loading[c]
        /\ UpdateDisabled(c)
        /\ IsNull(updates[c])
        /\ gestures > 0

\* C9: a failed store call ends its operation with the error toast and
\* leaves the table as it was: the previous month's select and the insert of
\* initializeMonthlyStock, and the update of updateActualClosingStock
C9_FailuresPropagate ==
    [][\A c \in Clients :
          /\ \A call \in inits[c] : \A next \in inits'[c] :
                (call.pc = "lookup" /\ next.call = call.call /\ next.pc = "insert") =>
                    ~next.lookupFailed
          /\ \A call \in inits[c] :
                (call.pc = "insert" /\ call \notin inits'[c] /\ store' = store) =>
                    toast'[c] = "initialize_error"
          /\ (UpdateEnds(c) /\ store' = store
                /\ store # UpdateById(store, Val(updates[c]).id,
                                      Val(updates[c]).actualClosing, Val(updates[c]).excess)) =>
                    toast'[c] = "update_error"]_vars

\* C10: an update whose closing stock exceeds the row's opening stock is
\* sent like any other, and when the service accepts it the row holds that
\* closing stock and the negative excess opening_stock - closing
C10_NegativeExcess ==
    [][\A c \in Clients :
          /\ (isDialogOpen[c] /\ ~loading[c] /\ ~IsNull(selectedStock[c])
                /\ ~ParseFloat(actualClosingStock[c]).nan
                /\ ParseFloat(actualClosingStock[c]).v > Val(selectedStock[c]).opening_stock)
                => ~UpdateDisabled(c)
          /\ (UpdateEnds(c) /\ toast'[c] = "update_success"
                /\ ~Val(updates[c]).actualClosing.nan
                /\ Val(updates[c]).actualClosing.v > store[Val(updates[c]).id].opening_stock) =>
                LET id == Val(updates[c]).id
                    closing == Val(updates[c]).actualClosing.v
                IN  /\ store'[id].actual_closing_stock = Some(closing)
                    /\ store'[id].excess = Some(store[id].opening_stock - closing)
                    /\ Val(store'[id].excess) < 0]_vars

\* a session has reconciled this month's row, opened with 0, to closing
\* stock 1 and excess -1
C10_Witness ==
    \E c \in Clients : \E i \in 1 .. Len(store) :
        /\ toast[c] = "update_success"
        /\ store[i].month_year = MonthKey(CurrentMonth)
        /\ store[i].opening_stock = 0
        /\ store[i].actual_closing_stock = Some(1)
        /\ store[i].excess = Some(0 - 1)

\* the sum of the sales volumes of the records of a station and product dated
\* in the calendar month of a period key, an absent volume counting as 0
RECURSIVE SalesOfMonth(_, _, _, _)
SalesOfMonth(fr, station, product, key) ==
    IF Len(fr) = 0 THEN 0
    ELSE LET r == fr[1]
             counted == /\ r.station_code = station
                        /\ r.product_type = product
                        /\ r.record_date[1] = key[1]
                        /\ r.record_date[2] = key[2]
                        /\ ~IsNull(r.sales_volume)
         IN  (IF counted THEN Val(r.sales_volume) ELSE 0)
             + SalesOfMonth(Tail(fr), station, product, key)

\* C11: a calculateEstimatedStock call whose sales select succeeds returns as
\* totalSalesVolume the sum of sales_volume over the fuel records of the
\* station and product dated in the selected month, and as estimatedStock the
\* loaded record's opening_stock (0 when none is loaded) minus that sum
C11_EstimateResult ==
    [][\A c \in Clients : \A call \in estimates[c] : \A done \in estimates'[c] :
          (call.pc = "select" /\ done.pc = "returned" /\ IsPeriodKey(call.monthStart)) =>
              LET total == SalesOfMonth(fuel_records, call.station_code,
                                        call.product_type, call.monthStart)
                  opening == IF IsNull(call.stock) THEN 0
                             ELSE Val(call.stock).opening_stock
              IN  /\ ~IsNull(done.result)
                  /\ ~Val(done.result).raised
                  /\ Val(done.result).totalSalesVolume = total
                  /\ Val(done.result).estimatedStock = opening - total]_vars

\* C12: a calculateEstimatedStock call whose sales select fails returns
\* totalSalesVolume 0 and estimatedStock 0 and raises nothing
C12_EstimateFallback ==
    [][\A c \in Clients : \A call \in estimates[c] : \A done \in estimates'[c] :
          (call.pc = "select" /\ done.pc = "failed") =>
              /\ ~IsNull(done.result)
              /\ ~Val(done.result).raised
              /\ Val(done.result).totalSalesVolume = 0
              /\ Val(done.result).estimatedStock = 0]_vars

\* a call has failed over a ledger with sales in the selected month, for a
\* product whose loaded record opened with stock
C12_Witness ==
    \E c \in Clients : \E call \in estimates[c] :
        /\ call.pc = "failed"
        /\ IsPeriodKey(call.monthStart)
        /\ SalesOfMonth(fuel_records, call.station_code, call.product_type,
                        call.monthStart) > 0
        /\ ~IsNull(call.stock)
        /\ Val(call.stock).opening_stock > 0
        /\ Val(call.result).totalSalesVolume = 0

\* C13: no step of a calculateEstimatedStock call, answered or failed, changes
\* a row of monthly_stock or of fuel_records or the session's loaded list
C13_EstimateReadOnly ==
    [][\A c \in Clients :
          estimates'[c] # estimates[c] =>
              /\ store' = store
              /\ fuel_records' = fuel_records
              /\ monthlyStocks'[c] = monthlyStocks[c]]_vars

\* one session's call has returned an estimate and the other's has failed,
\* over tables with rows and with a list loaded
C13_Witness ==
    \E c, d \in Clients :
        /\ \E call \in estimates[c] : call.pc = "returned" /\ ~IsNull(call.stock)
        /\ \E call \in estimates[d] : call.pc = "failed"
        /\ Len(store) > 0
        /\ Len(fuel_records) > 0
        /\ Len(monthlyStocks[c]) > 0

\* this step writes a row to fuel_records
RecordWritten == Len(fuel_records') = Len(fuel_records) + 1

WrittenRecord == fuel_records'[Len(fuel_records')]

\* C14: every row handleSubmit writes to fuel_records has sales_volume =
\* meter_closing - meter_opening and total_sales = sales_volume times the
\* price_per_litre of the row, also when meter_closing is below meter_opening
C14_FuelRecordArithmetic ==
    [][RecordWritten =>
          /\ WrittenRecord.sales_volume =
                 Some(WrittenRecord.meter_closing - WrittenRecord.meter_opening)
          /\ WrittenRecord.total_sales =
                 Val(WrittenRecord.sales_volume) * WrittenRecord.price_per_litre]_vars

\* the fields of the form the reset clears
FormFields(f) ==
    <<f.selectedPump, f.openingStock, f.meterOpening, f.meterClosing, f.closingStock>>

\* C18: handleSubmit sends no insert when no pump is selected or the selected
\* pump is not in the loaded list; when a submit has completed (saved, insert
\* failed, pump not found, no pump) loading is false; and the fields are
\* reset only by a successful insert
C18_SubmitGuard ==
    [][/\ (IsNull(form.insert) /\ ~IsNull(form'.insert)) =>
              /\ form.selectedPump # ""
              /\ \E i \in 1 .. Len(form.pumps) : form.pumps[i].id = form.selectedPump
       /\ RecordWritten => ~IsNull(form.insert)
       /\ ((HandleSubmit \/ SubmitInsertDone \/ SubmitInsertError)
              /\ IsNull(form'.insert)) => ~form'.loading
       /\ (FormFields(form') # FormFields(form) /\ gestures' = gestures) =>
              /\ RecordWritten
              /\ form'.toast = "save_success"
              /\ FormFields(form') = <<"", <<>>, <<>>, <<>>, <<>>>>
       /\ (~IsNull(form.insert) /\ IsNull(form'.insert) /\ ~RecordWritten) =>
              /\ FormFields(form') = FormFields(form)
              /\ form'.toast = "save_error"]_vars

\* a submit has ended with the error toast because the selected pump is of
\* the station shown before: nothing was sent and loading is false
C18_Witness ==
    /\ form.toast = "save_error"
    /\ form.selectedPump # ""
    /\ IsNull(FindPump(form.pumps, form.selectedPump))
    /\ IsNull(form.insert)
    /\ ~form.loading
    /\ RequiredFilled
    /\ Len(fuel_records) = 0

\* the rows of a table that differ from those of another at the same place
ChangedRows(s, t) == {i \in 1 .. Len(s) : i > Len(t) \/ s[i] # t[i]}

C16_PreviousPeriodKey ==
    \A c \in Clients : \A call \in inits[c] :
        IsPeriodKey(call.month_year) =>
            call.lastMonthFormatted = PreviousPeriodKey(call.month_year)

\* C17: when the answer to the last outstanding loadMonthlyStocks request of
\* a session arrives, the session's list is the table's rows of the station
\* and of the month now selected
C17_DisplayedMatchesSelection ==
    [][\A c \in Clients :
          (LoadMonthlyStocksDone(c) /\ loads'[c] = {}) =>
              monthlyStocks'[c] =
                  SelectMonthlyStocks(store', StationId, selectedMonth'[c])]_vars

====
